---- MODULE Spec2Model ----
(***************************************************************************)
(* Car-showroom sales dashboard (carshowroom_dashboard1.py).               *)
(*                                                                         *)
(* The Streamlit script is re-executed top to bottom on every widget       *)
(* interaction.  One action models one section of the script; the pass is  *)
(* load -> sidebar -> filter -> KPI cards -> trends -> tabs 1..5 -> done.  *)
(* A Python exception ends the pass in pc = "error".                       *)
(*                                                                         *)
(* Data frames are [cols, rows]: the set of column names and the sequence  *)
(* of rows; every row carries idx, its pandas index label.  Chart and      *)
(* widget rendering calls have no effect on program data and are modelled  *)
(* as not raising; cells of the CSV are always present (no NaN).           *)
(***************************************************************************)
EXTENDS Integers, Sequences, FiniteSets, TLC

VARIABLES
    csv,            \* the file car_showroom_data.csv
    cache,          \* the st.cache_data store of load_data
    loads,          \* number of executions of load_data's body that returned
    tieRev,         \* this build's order of equal keys in sort_values
    pc,             \* position of the script run
    df,             \* the script global df of the current run
    year, city, fuel,          \* the three sidebar widgets' values
    filtered_df,
    kpi,
    yearly_sales, monthly_sales,
    city_summary,
    model_perf, model_perf_head,
    fuel_count, fuel_revenue,
    sales_perf, sales_perf_head,
    cross_df,
    edited,         \* the file was changed after the process started
    snap            \* the outputs of one earlier completed pass

widgets == <<year, city, fuel>>
outputs == <<filtered_df, kpi, yearly_sales, monthly_sales, city_summary,
             model_perf, model_perf_head, fuel_count, fuel_revenue,
             sales_perf, sales_perf_head, cross_df>>
vars == <<csv, cache, loads, tieRev, pc, df, widgets, outputs, edited, snap>>

-----------------------------------------------------------------------------
(* Bounds of the model *)

\* rows of a source table
MaxRows == 3
\* rows of a source table with a missing column or an unparseable date
MaxErrRows == 1
\* rows of a source table of the session specification
SessRows == 1
\* rows of the large tables (one car model and one salesperson per row)
BigRows == 11

\* head(10) of the product and salesperson charts
TopN == 10

-----------------------------------------------------------------------------
(* Values that are absent: None, or Some(v) *)

None == <<>>
Some(v) == <<v>>
Get(o) == o[1]

Min(a, b) == IF a <= b THEN a ELSE b

RECURSIVE Gcd(_, _)
Gcd(a, b) == IF b = 0 THEN a ELSE Gcd(b, a % b)

-----------------------------------------------------------------------------
(* Python's order of str values, for the strings of the model *)

Lexicon ==
    << "2023", "2024", "Alto", "Apr", "Aug", "Baleno", "Brezza", "Creta",
       "Dec", "Delhi", "Diesel", "Dzire", "Ertiga", "Feb", "Fortuner",
       "Innova", "Jan", "Jul", "Jun", "Mar", "May", "Mumbai", "Nexon", "Nov",
       "Oct", "Petrol", "Seltos", "Sep", "Swift", "Thar", "Venue", "Verna" >>

StrRank(s) == CHOOSE i \in DOMAIN Lexicon : Lexicon[i] = s

\* the sort key of a value of column col: SalesPersonID is numeric, the
\* other grouping columns are strings
KeyRank(col, v) == IF col = "SalesPersonID" THEN v ELSE StrRank(v)

-----------------------------------------------------------------------------
(* The source file *)

CsvCols == {"SaleDate", "City", "FuelType", "CarModel", "Price", "SalesPersonID"}

Date(y, m) == [ok |-> TRUE, y |-> y, m |-> m]
BadDate == [ok |-> FALSE, y |-> 0, m |-> 0]

Raw(d, c, f, cm, p, sp) ==
    [SaleDate |-> d, City |-> c, FuelType |-> f, CarModel |-> cm,
     Price |-> p, SalesPersonID |-> sp]

RowPool ==
    << Raw(Date(2023, 4), "Delhi",  "Petrol", "Swift", 5, 101),
       Raw(Date(2023, 1), "Mumbai", "Diesel", "Creta", 7, 102),
       Raw(Date(2024, 2), "Delhi",  "Petrol", "Creta", 6, 101),
       Raw(Date(2023, 1), "Mumbai", "Petrol", "Swift", 7, 102) >>

BadRow == Raw(BadDate, "Delhi", "Petrol", "Swift", 5, 101)

BigModels ==
    << "Alto", "Baleno", "Brezza", "Creta", "Dzire", "Ertiga", "Fortuner",
       "Innova", "Nexon", "Seltos", "Swift", "Thar", "Venue", "Verna" >>

BigPrice(v, i) == IF v = 1 THEN i ELSE ((i * 3) % 7) + 1

BigTable(v) ==
    [i \in 1..BigRows |->
        Raw(Date(2023, ((i - 1) % 12) + 1),
            IF i % 2 = 1 THEN "Delhi" ELSE "Mumbai",
            "Petrol", BigModels[i], BigPrice(v, i), 100 + i)]

PoolRows == {RowPool[i] : i \in DOMAIN RowPool}
SeqsUpTo(S, n) == UNION {[1..k -> S] : k \in 0..n}

File(e, c, r) == [exists |-> e, cols |-> c, rows |-> r]

GoodSources ==
    {File(TRUE, CsvCols, t) : t \in SeqsUpTo(PoolRows, MaxRows)}
    \cup {File(TRUE, CsvCols, BigTable(v)) : v \in 1..2}

DefectiveSources ==
    {File(FALSE, {}, <<>>)}
    \cup {File(TRUE, CsvCols \ {c}, t) :
            c \in CsvCols, t \in SeqsUpTo(PoolRows, MaxErrRows)}
    \cup {File(TRUE, CsvCols, t \o <<BadRow>>) : t \in SeqsUpTo(PoolRows, MaxErrRows)}
    \cup {File(TRUE, CsvCols, <<BadRow>> \o t) : t \in SeqsUpTo(PoolRows, MaxErrRows)}

SessionSources ==
    {File(TRUE, CsvCols, t) : t \in SeqsUpTo(PoolRows, SessRows)}
    \cup {File(FALSE, {}, <<>>)}

-----------------------------------------------------------------------------
(* load_data: read_csv, to_datetime and the three derived columns *)

DigitStr == <<"0", "1", "2", "3", "4", "5", "6", "7", "8", "9">>

\* dt.year.astype(str)
YearStr(y) ==
    DigitStr[((y \div 1000) % 10) + 1] \o DigitStr[((y \div 100) % 10) + 1]
        \o DigitStr[((y \div 10) % 10) + 1] \o DigitStr[(y % 10) + 1]

month_abbr ==
    << "Jan", "Feb", "Mar", "Apr", "May", "Jun",
       "Jul", "Aug", "Sep", "Oct", "Nov", "Dec" >>

\* dt.strftime("%b")
strftime_b(m) == month_abbr[m]

DerivedCols == {"Year", "Month", "MonthName"}

Derive(r, i) ==
    [idx |-> i, SaleDate |-> r.SaleDate,
     Year |-> YearStr(r.SaleDate.y), Month |-> r.SaleDate.m,
     MonthName |-> strftime_b(r.SaleDate.m),
     City |-> r.City, FuelType |-> r.FuelType, CarModel |-> r.CarModel,
     Price |-> r.Price, SalesPersonID |-> r.SalesPersonID]

\* read_csv raises on a missing file, df["SaleDate"] on a missing column,
\* to_datetime on a value that is no date
LoadRaises(c) ==
    \/ ~c.exists
    \/ "SaleDate" \notin c.cols
    \/ \E i \in DOMAIN c.rows : ~c.rows[i].SaleDate.ok

load_data(c) ==
    [cols |-> c.cols \cup DerivedCols,
     rows |-> [i \in DOMAIN c.rows |-> Derive(c.rows[i], i - 1)]]

CacheHit_never(c) == FALSE

\* @st.cache_data: the body runs only when nothing is stored for the call
CacheHit(c) == c # None

-----------------------------------------------------------------------------
(* pandas operations used by the script *)

unique(rows, col) == {rows[i][col] : i \in DOMAIN rows}

RECURSIVE SortKeys(_, _)
\* the values of S in ascending order of column col's sort key
SortKeys(S, col) ==
    IF S = {} THEN <<>>
    ELSE LET m == CHOOSE x \in S : \A y \in S : KeyRank(col, x) <= KeyRank(col, y)
         IN  <<m>> \o SortKeys(S \ {m}, col)

isin_emptyAll(v, S) == S = {} \/ v \in S

\* Series.isin
isin(v, S) == v \in S

RowMask_noFuel(r, y, c, f) == isin(r.Year, y) /\ isin(r.City, c)

\* the boolean mask of lines 116-118, for one row
RowMask(r, y, c, f) == isin(r.Year, y) /\ isin(r.City, c) /\ isin(r.FuelType, f)

\* df[mask]
BoolIndex(d, y, c, f) ==
    [cols |-> d.cols, rows |-> SelectSeq(d.rows, LAMBDA r : RowMask(r, y, c, f))]

RECURSIVE SumPrice(_)
SumPrice(rows) ==
    IF rows = <<>> THEN 0 ELSE Head(rows).Price + SumPrice(Tail(rows))

NaN == [num |-> 0, den |-> 0]

\* a float quotient, kept exact
Quot(n, d) ==
    IF d = 0 THEN NaN
    ELSE LET g == Gcd(n, d) IN [num |-> n \div g, den |-> d \div g]

\* Series.mean: NaN on an empty series
MeanPrice(rows) == Quot(SumPrice(rows), Len(rows))

\* groupby(col): the groups in ascending key order, each with its rows in
\* table order
groupby(rows, col) ==
    LET ks == SortKeys(unique(rows, col), col)
    IN  [j \in DOMAIN ks |->
            [key |-> ks[j], grp |-> SelectSeq(rows, LAMBDA r : r[col] = ks[j])]]

\* row x goes after the rows of s with a larger value, and after or before
\* the equal ones
InsertDesc(x, s, field, rev) ==
    LET p == Cardinality({i \in DOMAIN s :
                 \/ s[i][field] > x[field]
                 \/ s[i][field] = x[field] /\ ~rev})
    IN  SubSeq(s, 1, p) \o <<x>> \o SubSeq(s, p + 1, Len(s))

RECURSIVE SortDescFrom(_, _, _, _, _)
SortDescFrom(t, k, acc, field, rev) ==
    IF k > Len(t) THEN acc
    ELSE SortDescFrom(t, k + 1, InsertDesc(t[k], acc, field, rev), field, rev)

sort_values_none(t, field, rev) == t

\* sort_values(field, ascending=False)
sort_values(t, field, rev) == SortDescFrom(t, 1, <<>>, field, rev)

head_all(t, n) == t

\* DataFrame.head(n)
head(t, n) == SubSeq(t, 1, Min(n, Len(t)))

-----------------------------------------------------------------------------
(* The tables the script derives from filtered_df *)

count_nunique(g) == Cardinality({g[i].Price : i \in DOMAIN g})

\* ("Price", "count")
count(g) == Len(g)

\* groupby("Year").size().reset_index(name="Sales")
YearlySales(rows) ==
    LET g == groupby(rows, "Year")
    IN  [j \in DOMAIN g |-> [Year |-> g[j].key, Sales |-> Len(g[j].grp)]]

RECURSIVE SortPairs(_)
\* (Year, MonthName) keys in ascending order, both compared as strings
SortPairs(S) ==
    IF S = {} THEN <<>>
    ELSE LET m == CHOOSE x \in S : \A y \in S :
                    \/ StrRank(x[1]) < StrRank(y[1])
                    \/ x[1] = y[1] /\ StrRank(x[2]) <= StrRank(y[2])
         IN  <<m>> \o SortPairs(S \ {m})

month_order ==
    << "Jan", "Feb", "Mar", "Apr", "May", "Jun",
       "Jul", "Aug", "Sep", "Oct", "Nov", "Dec" >>

\* pd.Categorical(values, categories, ordered=True), for one value: its
\* label and its code, -1 for a value outside the categories
Categorical(v, cats) ==
    [label |-> v,
     code  |-> IF \E i \in DOMAIN cats : cats[i] = v
               THEN (CHOOSE i \in DOMAIN cats : cats[i] = v) - 1
               ELSE -1]

\* groupby(["Year","MonthName"]).size().reset_index(name="Sales"), then the
\* MonthName column replaced by its Categorical; the rows keep their order
MonthlySales(rows) ==
    LET ks == SortPairs({<<rows[i].Year, rows[i].MonthName>> : i \in DOMAIN rows})
    IN  [j \in DOMAIN ks |->
            [Year |-> ks[j][1],
             MonthName |-> Categorical(ks[j][2], month_order),
             Sales |-> Len(SelectSeq(rows,
                          LAMBDA r : r.Year = ks[j][1] /\ r.MonthName = ks[j][2]))]]

\* groupby("City").agg(Sales, Revenue, Avg_Price).reset_index()
CitySummary(rows) ==
    LET g == groupby(rows, "City")
    IN  [j \in DOMAIN g |->
            [City |-> g[j].key, Sales |-> count(g[j].grp),
             Revenue |-> SumPrice(g[j].grp), Avg_Price |-> MeanPrice(g[j].grp)]]

\* groupby("CarModel").agg(Units_Sold, Revenue).reset_index().sort_values(...)
ModelPerf(rows, rev) ==
    LET g == groupby(rows, "CarModel")
    IN  sort_values(
            [j \in DOMAIN g |->
                [CarModel |-> g[j].key, Units_Sold |-> count(g[j].grp),
                 Revenue |-> SumPrice(g[j].grp)]],
            "Revenue", rev)

\* groupby("SalesPersonID").agg(Cars_Sold, Revenue).reset_index().sort_values(...)
SalesPerf(rows, rev) ==
    LET g == groupby(rows, "SalesPersonID")
    IN  sort_values(
            [j \in DOMAIN g |->
                [SalesPersonID |-> g[j].key, Cars_Sold |-> count(g[j].grp),
                 Revenue |-> SumPrice(g[j].grp)]],
            "Revenue", rev)

\* ["FuelType"].value_counts().reset_index(): most frequent first
FuelCount(rows, rev) ==
    LET g == groupby(rows, "FuelType")
    IN  sort_values(
            [j \in DOMAIN g |-> [FuelType |-> g[j].key, Count |-> Len(g[j].grp)]],
            "Count", rev)

\* groupby("FuelType")["Price"].sum().reset_index()
FuelRevenue(rows) ==
    LET g == groupby(rows, "FuelType")
    IN  [j \in DOMAIN g |-> [FuelType |-> g[j].key, Price |-> SumPrice(g[j].grp)]]

crosstab_sparse(rows, rowCol, colCol) ==
    LET obs == {<<rows[i][rowCol], rows[i][colCol]>> : i \in DOMAIN rows}
    IN  [index   |-> SortKeys(unique(rows, rowCol), rowCol),
         columns |-> SortKeys(unique(rows, colCol), colCol),
         cell    |-> [p \in obs |->
                        Len(SelectSeq(rows,
                            LAMBDA r : r[rowCol] = p[1] /\ r[colCol] = p[2]))]]

\* pd.crosstab: the sizes of the observed (row, column) groups, unstacked over
\* the observed row labels and column labels with the empty cells filled by 0
crosstab(rows, rowCol, colCol) ==
    LET obs == {<<rows[i][rowCol], rows[i][colCol]>> : i \in DOMAIN rows}
        size == [p \in obs |->
                    Len(SelectSeq(rows,
                        LAMBDA r : r[rowCol] = p[1] /\ r[colCol] = p[2]))]
    IN  [index   |-> SortKeys(unique(rows, rowCol), rowCol),
         columns |-> SortKeys(unique(rows, colCol), colCol),
         cell    |-> [p \in unique(rows, rowCol) \X unique(rows, colCol) |->
                        IF p \in obs THEN size[p] ELSE 0]]

\* st.sidebar.multiselect(label, options, default=options): the stored value
\* of the widget, the default on its first rendering
multiselect(value, options) == IF value = None THEN Some(options) ELSE value

-----------------------------------------------------------------------------
(* The script run *)

NoOutputs ==
    /\ filtered_df' = None /\ kpi' = None
    /\ yearly_sales' = None /\ monthly_sales' = None
    /\ city_summary' = None
    /\ model_perf' = None /\ model_perf_head' = None
    /\ fuel_count' = None /\ fuel_revenue' = None
    /\ sales_perf' = None /\ sales_perf_head' = None
    /\ cross_df' = None

InitCommon ==
    /\ cache = None /\ loads = 0
    /\ tieRev \in BOOLEAN
    /\ pc = "load"
    /\ df = None
    /\ year = None /\ city = None /\ fuel = None
    /\ filtered_df = None /\ kpi = None
    /\ yearly_sales = None /\ monthly_sales = None
    /\ city_summary = None
    /\ model_perf = None /\ model_perf_head = None
    /\ fuel_count = None /\ fuel_revenue = None
    /\ sales_perf = None /\ sales_perf_head = None
    /\ cross_df = None
    /\ edited = FALSE
    /\ snap = None

Init == csv \in GoodSources \cup DefectiveSources /\ InitCommon

F_unfiltered == Get(df).rows

\* the rows of filtered_df
F == Get(filtered_df).rows

\* line 105: df = load_data()
Load ==
    /\ pc = "load"
    /\ IF CacheHit(cache)
       THEN /\ df' = cache
            /\ pc' = "sidebar"
            /\ UNCHANGED <<cache, loads>>
       ELSE IF LoadRaises(csv)
       THEN /\ pc' = "error"
            /\ UNCHANGED <<cache, loads, df>>
       ELSE /\ cache' = Some(load_data(csv))
            /\ df' = cache'
            /\ loads' = loads + 1
            /\ pc' = "sidebar"
    /\ UNCHANGED <<csv, tieRev, widgets, outputs, edited, snap>>

\* lines 110-113: the three multiselect widgets; df["City"] and
\* df["FuelType"] raise KeyError on a missing column
Sidebar ==
    /\ pc = "sidebar"
    /\ year' = multiselect(year, unique(Get(df).rows, "Year"))
    /\ IF "City" \notin Get(df).cols
       THEN pc' = "error" /\ UNCHANGED <<city, fuel>>
       ELSE /\ city' = multiselect(city, unique(Get(df).rows, "City"))
            /\ IF "FuelType" \notin Get(df).cols
               THEN pc' = "error" /\ UNCHANGED fuel
               ELSE /\ fuel' = multiselect(fuel, unique(Get(df).rows, "FuelType"))
                    /\ pc' = "filter"
    /\ UNCHANGED <<csv, cache, loads, tieRev, df, outputs, edited, snap>>

\* lines 115-119
Filter ==
    /\ pc = "filter"
    /\ filtered_df' = Some(BoolIndex(Get(df), Get(year), Get(city), Get(fuel)))
    /\ pc' = "kpi"
    /\ UNCHANGED <<csv, cache, loads, tieRev, df, widgets, kpi, yearly_sales,
                   monthly_sales, city_summary, model_perf, model_perf_head,
                   fuel_count, fuel_revenue, sales_perf, sales_perf_head,
                   cross_df, edited, snap>>

\* lines 124-145: the three KPI cards
KpiCards ==
    /\ pc = "kpi"
    /\ IF "Price" \notin Get(filtered_df).cols
       THEN pc' = "error" /\ UNCHANGED kpi
       ELSE /\ kpi' = Some([sold |-> Len(F), revenue |-> SumPrice(F),
                            avg |-> MeanPrice(F)])
            /\ pc' = "trends"
    /\ UNCHANGED <<csv, cache, loads, tieRev, df, widgets, filtered_df,
                   yearly_sales, monthly_sales, city_summary, model_perf,
                   model_perf_head, fuel_count, fuel_revenue, sales_perf,
                   sales_perf_head, cross_df, edited, snap>>

\* lines 152-167: year-wise and month-wise sales
Trends ==
    /\ pc = "trends"
    /\ yearly_sales' = Some(YearlySales(F))
    /\ monthly_sales' = Some(MonthlySales(F))
    /\ pc' = "tab1"
    /\ UNCHANGED <<csv, cache, loads, tieRev, df, widgets, filtered_df, kpi,
                   city_summary, model_perf, model_perf_head, fuel_count,
                   fuel_revenue, sales_perf, sales_perf_head, cross_df,
                   edited, snap>>

\* lines 177-186
TabCity ==
    /\ pc = "tab1"
    /\ city_summary' = Some(CitySummary(F))
    /\ pc' = "tab2"
    /\ UNCHANGED <<csv, cache, loads, tieRev, df, widgets, filtered_df, kpi,
                   yearly_sales, monthly_sales, model_perf, model_perf_head,
                   fuel_count, fuel_revenue, sales_perf, sales_perf_head,
                   cross_df, edited, snap>>

\* lines 189-198
TabProduct ==
    /\ pc = "tab2"
    /\ IF "CarModel" \notin Get(filtered_df).cols
       THEN pc' = "error" /\ UNCHANGED <<model_perf, model_perf_head>>
       ELSE /\ model_perf' = Some(ModelPerf(F, tieRev))
            /\ model_perf_head' = Some(head(Get(model_perf'), TopN))
            /\ pc' = "tab3"
    /\ UNCHANGED <<csv, cache, loads, tieRev, df, widgets, filtered_df, kpi,
                   yearly_sales, monthly_sales, city_summary, fuel_count,
                   fuel_revenue, sales_perf, sales_perf_head, cross_df,
                   edited, snap>>

\* lines 201-211
TabFuel ==
    /\ pc = "tab3"
    /\ fuel_count' = Some(FuelCount(F, tieRev))
    /\ fuel_revenue' = Some(FuelRevenue(F))
    /\ pc' = "tab4"
    /\ UNCHANGED <<csv, cache, loads, tieRev, df, widgets, filtered_df, kpi,
                   yearly_sales, monthly_sales, city_summary, model_perf,
                   model_perf_head, sales_perf, sales_perf_head, cross_df,
                   edited, snap>>

\* lines 214-222
TabSalesperson ==
    /\ pc = "tab4"
    /\ IF "SalesPersonID" \notin Get(filtered_df).cols
       THEN pc' = "error" /\ UNCHANGED <<sales_perf, sales_perf_head>>
       ELSE /\ sales_perf' = Some(SalesPerf(F, tieRev))
            /\ sales_perf_head' = Some(head(Get(sales_perf'), TopN))
            /\ pc' = "tab5"
    /\ UNCHANGED <<csv, cache, loads, tieRev, df, widgets, filtered_df, kpi,
                   yearly_sales, monthly_sales, city_summary, model_perf,
                   model_perf_head, fuel_count, fuel_revenue, cross_df,
                   edited, snap>>

\* lines 225-232
TabCross ==
    /\ pc = "tab5"
    /\ cross_df' = Some(crosstab(F, "City", "FuelType"))
    /\ pc' = "done"
    /\ UNCHANGED <<csv, cache, loads, tieRev, df, widgets, filtered_df, kpi,
                   yearly_sales, monthly_sales, city_summary, model_perf,
                   model_perf_head, fuel_count, fuel_revenue, sales_perf,
                   sales_perf_head, edited, snap>>

\* the value of the widget of column w
Widget(w) == IF w = "Year" THEN year ELSE IF w = "City" THEN city ELSE fuel

\* The user changes the selection of one widget the last run rendered to S,
\* which starts a new run of the script with fresh globals.
Interact ==
    /\ pc \in {"done", "error"}
    /\ df # None
    /\ \E w \in {"Year", "City", "FuelType"} :
          /\ Widget(w) # None
          /\ \E S \in SUBSET unique(Get(df).rows, w) :
                /\ Some(S) # Widget(w)
                /\ year' = IF w = "Year" THEN Some(S) ELSE year
                /\ city' = IF w = "City" THEN Some(S) ELSE city
                /\ fuel' = IF w = "FuelType" THEN Some(S) ELSE fuel
    /\ snap' = IF snap # None /\ Get(snap).sel # <<year', city', fuel'>>
               THEN Some([Get(snap) EXCEPT !.moved = TRUE])
               ELSE snap
    /\ df' = None
    /\ NoOutputs
    /\ pc' = "load"
    /\ UNCHANGED <<csv, cache, loads, tieRev, edited>>

\* The user reruns the script without changing a widget.
Rerun ==
    /\ pc \in {"done", "error"}
    /\ df' = None
    /\ NoOutputs
    /\ pc' = "load"
    /\ UNCHANGED <<csv, cache, loads, tieRev, widgets, edited, snap>>

\* Between two runs the file is replaced: a row is appended, or the file is
\* deleted; a missing file is created.
EditSource ==
    /\ pc \in {"done", "error"}
    /\ ~edited
    /\ edited' = TRUE
    /\ IF csv.exists
       THEN \/ csv' = File(TRUE, csv.cols, Append(csv.rows, RowPool[1]))
            \/ csv' = File(FALSE, {}, <<>>)
       ELSE csv' = File(TRUE, CsvCols, <<RowPool[2]>>)
    /\ UNCHANGED <<cache, loads, tieRev, pc, df, widgets, outputs, snap>>

\* The outputs of a completed pass are recorded, with its selection.
Snapshot ==
    /\ pc = "done"
    /\ snap = None
    /\ snap' = Some([sel |-> widgets, out |-> outputs, moved |-> FALSE])
    /\ UNCHANGED <<csv, cache, loads, tieRev, pc, df, widgets, outputs, edited>>

Pass ==
    \/ Load \/ Sidebar \/ Filter \/ KpiCards \/ Trends
    \/ TabCity \/ TabProduct \/ TabFuel \/ TabSalesperson \/ TabCross

Next == Pass \/ Interact \/ Rerun

Spec == Init /\ [][Next]_vars

InitSession == csv \in SessionSources /\ InitCommon

NextSession == Next \/ EditSource \/ Snapshot

SpecSession == InitSession /\ [][NextSession]_vars

-----------------------------------------------------------------------------
(* Properties *)

\* the records the filter kept, and the loaded table, in the current run
Kept == Get(filtered_df).rows
Table == Get(df).rows

\* the positions of the kept records that have value k in column col
Having(col, k) == {i \in DOMAIN Kept : Kept[i][col] = k}

RECURSIVE PriceOver(_)
\* the sum of the prices of the kept records at the positions S
PriceOver(S) ==
    IF S = {} THEN 0
    ELSE LET i == CHOOSE j \in S : TRUE IN Kept[i].Price + PriceOver(S \ {i})

RECURSIVE CellTotal(_, _)
\* the sum of the cells P of a counts matrix
CellTotal(cell, P) ==
    IF P = {} THEN 0
    ELSE LET p == CHOOSE q \in P : TRUE IN cell[p] + CellTotal(cell, P \ {p})

Range(t) == {t[j] : j \in DOMAIN t}

NonEmptySelection == Get(year) # {} /\ Get(city) # {} /\ Get(fuel) # {}

\* C1: with three non-empty selected sets, filtered_df holds exactly the rows
\* of df whose year, city and fuel type are all selected, each once and in
\* the order of df.
C1_FilterExact ==
    (filtered_df # None /\ NonEmptySelection) =>
        LET keep == {i \in DOMAIN Table :
                        /\ Table[i].Year \in Get(year)
                        /\ Table[i].City \in Get(city)
                        /\ Table[i].FuelType \in Get(fuel)}
        IN  /\ Len(Kept) = Cardinality(keep)
            /\ {Kept[k].idx : k \in DOMAIN Kept} = {Table[i].idx : i \in keep}
            /\ \A k \in DOMAIN Kept : \E i \in keep : Kept[k] = Table[i]
            /\ \A k1, k2 \in DOMAIN Kept : k1 < k2 => Kept[k1].idx < Kept[k2].idx

C1_Witness ==
    /\ filtered_df # None /\ NonEmptySelection
    /\ Len(Kept) >= 2
    /\ Len(Kept) < Len(Table)
    /\ \E i \in DOMAIN Table : i < Len(Table) /\ Table[i] \notin Range(Kept)

\* C2: an empty selected set in any one dimension makes filtered_df empty.
C2_EmptySelectionKeepsNothing ==
    (filtered_df # None /\ ~NonEmptySelection) => Kept = <<>>

C2_Witness ==
    /\ filtered_df # None
    /\ Get(fuel) = {} /\ Get(year) # {} /\ Get(city) # {}
    /\ Len(Table) >= 2

\* the rows of summary t are one per distinct value of column col among the
\* kept records, each with that value's record count and price sum
GroupRows(t, col, cnt) ==
    /\ Len(t) = Cardinality(unique(Kept, col))
    /\ {t[j][col] : j \in DOMAIN t} = unique(Kept, col)
    /\ \A j \in DOMAIN t :
          /\ t[j][cnt] = Cardinality(Having(col, t[j][col]))
          /\ t[j].Revenue = PriceOver(Having(col, t[j][col]))

\* row r carries a mean that is sum / count
MeanIsSumOverCount(r, cnt) ==
    /\ "Avg_Price" \in DOMAIN r
    /\ r.Avg_Price.den > 0
    /\ r.Avg_Price.num * r[cnt] = r.Revenue * r.Avg_Price.den

C4_CrossTab ==
    cross_df # None =>
        LET x == Get(cross_df)
            R == unique(Kept, "City")
            C == unique(Kept, "FuelType")
        IN  /\ Range(x.index) = R /\ Len(x.index) = Cardinality(R)
            /\ Range(x.columns) = C /\ Len(x.columns) = Cardinality(C)
            /\ DOMAIN x.cell = R \X C
            /\ \A r \in R, c \in C :
                  x.cell[<<r, c>>] =
                      Cardinality(Having("City", r) \cap Having("FuelType", c))
            /\ CellTotal(x.cell, R \X C) = Len(Kept)
            /\ \A r \in R :
                  CellTotal(x.cell, {r} \X C) = Cardinality(Having("City", r))
            /\ \A c \in C :
                  CellTotal(x.cell, R \X {c}) = Cardinality(Having("FuelType", c))

C4_Witness ==
    /\ cross_df # None
    /\ Len(Kept) >= 3
    /\ \E p \in DOMAIN Get(cross_df).cell : Get(cross_df).cell[p] = 0
    /\ \E p \in DOMAIN Get(cross_df).cell : Get(cross_df).cell[p] >= 2

\* C5: once the store is written it never changes and load_data's body never
\* runs again (it runs once, on the first load); every later run's df is the
\* stored table, whatever was selected and whatever became of the file.
C5_StoreWrittenOnce ==
    [][ /\ cache # None => (cache' = cache /\ loads' = loads)
        /\ (cache = None /\ cache' # None) => (loads = 0 /\ loads' = 1)
        /\ df' # None => df' = cache' ]_vars

C5_Witness ==
    /\ pc = "done"
    /\ edited
    /\ loads = 1
    /\ df = cache
    /\ ~csv.exists \/ Len(csv.rows) # Len(Get(cache).rows)
    /\ snap # None /\ Get(snap).moved

\* the source file cannot be loaded as the specification requires: it is
\* missing, lacks a required column, or holds a date that does not parse
SourceDefective ==
    \/ ~csv.exists
    \/ ~(CsvCols \subseteq csv.cols)
    \/ \E i \in DOMAIN csv.rows : ~csv.rows[i].SaleDate.ok

NothingComputed ==
    /\ filtered_df = None /\ kpi = None
    /\ yearly_sales = None /\ monthly_sales = None
    /\ city_summary = None /\ model_perf = None /\ sales_perf = None
    /\ fuel_count = None /\ fuel_revenue = None /\ cross_df = None

\* C6: a missing file, a missing required column or an unparseable date makes
\* the load fail as a whole: no table is stored and no filter or aggregation
\* step runs; and no such step ever runs before a load has succeeded.
C6_LoadAllOrNothing ==
    /\ SourceDefective => (cache = None /\ df = None /\ NothingComputed)
    /\ ~NothingComputed => (cache # None /\ df = cache)

\* C7: over a table that has every column of the record type, an empty
\* filtered_df never ends the pass in an error, and every result computed
\* from it is the empty one: no groups, no rows, an empty matrix, and a count
\* of 0, a sum of 0 and an undefined mean on the cards.
C7_EmptyInputDegenerate ==
    (/\ filtered_df # None
     /\ Kept = <<>>
     /\ CsvCols \subseteq Get(filtered_df).cols) =>
        /\ pc # "error"
        /\ kpi # None => Get(kpi) = [sold |-> 0, revenue |-> 0, avg |-> NaN]
        /\ yearly_sales # None => Len(Get(yearly_sales)) = 0
        /\ monthly_sales # None => Len(Get(monthly_sales)) = 0
        /\ city_summary # None => Len(Get(city_summary)) = 0
        /\ model_perf # None =>
              Len(Get(model_perf)) = 0 /\ Len(Get(model_perf_head)) = 0
        /\ fuel_count # None =>
              Len(Get(fuel_count)) = 0 /\ Len(Get(fuel_revenue)) = 0
        /\ sales_perf # None =>
              Len(Get(sales_perf)) = 0 /\ Len(Get(sales_perf_head)) = 0
        /\ cross_df # None =>
              /\ Len(Get(cross_df).index) = 0
              /\ Len(Get(cross_df).columns) = 0
              /\ DOMAIN Get(cross_df).cell = {}

C7_Witness ==
    /\ pc = "done"
    /\ Kept = <<>>
    /\ Len(Table) >= 2
    /\ cross_df # None

\* C8: a completed pass whose selected sets equal those of an earlier
\* completed pass has the same filtered subset and the same aggregation
\* results as that pass, whatever was selected in between.
C8_NoInterRequestState ==
    (pc = "done" /\ snap # None /\ Get(snap).sel = widgets) =>
        Get(snap).out = outputs

C8_Witness ==
    /\ pc = "done"
    /\ snap # None
    /\ Get(snap).sel = widgets
    /\ Get(snap).moved
    /\ edited
    /\ Len(Table) >= 1

\* C9: the rows of monthly_sales handed to the month-wise chart are in
\* calendar order within each year, and every month name is one of the 12
\* labels of month_order.
C9_MonthsInCalendarOrder ==
    monthly_sales # None =>
        LET m == Get(monthly_sales)
        IN  /\ \A j \in DOMAIN m : m[j].MonthName.code >= 0
            /\ \A i, j \in DOMAIN m :
                  (m[i].Year = m[j].Year /\ m[i].MonthName.code < m[j].MonthName.code)
                      => i < j

\* the rows of t are in descending order of Revenue
RevenueDescending(t) ==
    \A i, j \in DOMAIN t : i < j => t[i].Revenue >= t[j].Revenue

\* chart rows h are the first min(TopN, n) rows of t, and no row left out has
\* a larger Revenue than a row shown
TopOf(h, t) ==
    /\ Len(h) = Min(TopN, Len(t))
    /\ \A j \in DOMAIN h : h[j] = t[j]
    /\ \A j \in DOMAIN h : \A k \in DOMAIN t : k > Len(h) => t[k].Revenue <= h[j].Revenue

\* C10 as stated: all three summaries are sorted by sum of price, descending.
C10_AllSummariesSorted ==
    /\ city_summary # None => RevenueDescending(Get(city_summary))
    /\ model_perf # None => RevenueDescending(Get(model_perf))
    /\ sales_perf # None => RevenueDescending(Get(sales_perf))

\* C10: the car-model and salesperson summaries are sorted by sum of price,
\* descending, and their charts show exactly the first min(10, groups) rows
\* of that order; the city summary is in ascending order of city name and is
\* charted whole.
C10_SortedAndTruncated ==
    /\ model_perf # None =>
          /\ RevenueDescending(Get(model_perf))
          /\ TopOf(Get(model_perf_head), Get(model_perf))
    /\ sales_perf # None =>
          /\ RevenueDescending(Get(sales_perf))
          /\ TopOf(Get(sales_perf_head), Get(sales_perf))
    /\ city_summary # None =>
          \A i, j \in DOMAIN Get(city_summary) :
              i < j => StrRank(Get(city_summary)[i].City)
                         < StrRank(Get(city_summary)[j].City)

C10_Witness ==
    /\ sales_perf # None
    /\ Len(Get(model_perf)) > TopN
    /\ Len(Get(sales_perf)) > TopN
    /\ Len(Get(model_perf_head)) = TopN
    /\ \E k \in DOMAIN Get(model_perf) :
          k > TopN /\ Get(model_perf)[k].Revenue < Get(model_perf)[TopN].Revenue

====
